---- MODULE Spec2Model ----
(***************************************************************************)
(* State-machine model of the wall-e-control OLED status display,          *)
(* modules/display_controller.py (class EnhancedDisplayController).        *)
(*                                                                         *)
(* `display` is the controller object (its fields keep the source names).  *)
(* `call` is what the last call of a render operation did (its arguments,  *)
(* the views it invoked, the bitmap it handed to the panel driver and the  *)
(* rectangles it issued on the logical canvas); `earlier` is one of the     *)
(* calls before it.  `renders` counts the solar frames shown since         *)
(* construction, and `steady` is the snapshot of the calls so far while    *)
(* all of them were update_status with one and the same snapshot.          *)
(* `chg_run` counts the latest solar frames shown in a row, all of them    *)
(* charging, with the CHG badge drawn (shown) and without it (hidden).      *)
(* `env` names the environment the inputs are drawn from; it never changes. *)
(* `threads` is where each thread of app.py is: the sensor thread            *)
(* (sensor_update_thread), the startup thread (play_startup_sequence) and a *)
(* request handler.                                                         *)
(* `battery` is the BatteryMonitor of app.py (monitor), how far              *)
(* initialize_hardware has got with registering its callbacks (init), and     *)
(* what the latest _update_battery_readings did (seen).                     *)
(* `walle` is walle_state of app.py (state), the arduino and audio objects  *)
(* of app.py, and the latest operation that wrote walle_state (last).       *)
(* `camera` is ESP32_CAM_IP of app.py (ip), the camera on the network       *)
(* (online), where camera_monitor_thread and a /api/camera/status request   *)
(* are, and the latest response of the request.                             *)
(***************************************************************************)
EXTENDS Integers, Sequences, FiniteSets, TLC

VARIABLES display, call, earlier, renders, steady, chg_run, env, threads,
          battery, walle, camera

vars == <<display, call, earlier, renders, steady, chg_run, env, threads,
          battery, walle, camera>>

\* the state outside the display controller and the threads that use it
others == <<battery, walle, camera>>

-----------------------------------------------------------------------------
(* Bounds of the model *)

\* battery levels within this distance of the critical threshold are inputs
LevelRadius == 1
\* solar frames shown per behaviour in the specifications that cap them
MaxRenders == 1
\* solar frames shown per behaviour in the animation specification
MaxAnimRenders == 372
\* change of the battery level from one call to the next solar frame in the
\* specification of the charge bars
MaxDrift == 1

-----------------------------------------------------------------------------
(* Python helpers *)

Max(a, b) == IF a >= b THEN a ELSE b
Min(a, b) == IF a <= b THEN a ELSE b

\* dict.get(key, default)
Get(d, key, default) == IF key \in DOMAIN d THEN d[key] ELSE default

\* no bitmap reached display.image in the call
NoImage == <<>>

-----------------------------------------------------------------------------
(* Construction: __init__, _auto_detect_display, _initialize_display *)

\* _initialize_display(address, width, height) on the hardware hw: the driver
\* constructor raises unless a panel answers at the address (hw.devices); on
\* success the address and the PHYSICAL size are overwritten and the
\* controller becomes available.  The logical size is not touched.
_initialize_display(self, hw, address, width, height) ==
    IF address \in hw.devices
    THEN [self EXCEPT !.address = address,
                      !.physical_width = width,
                      !.physical_height = height,
                      !.available = TRUE]
    ELSE self

\* whether that attempt returned True
initialize_succeeds(hw, address) == address \in hw.devices

addresses_to_try == <<60, 61, 120, 122, 62, 63>>
sizes_to_try == <<<<128, 64>>, <<128, 32>>, <<64, 48>>>>

\* the nested loops of _auto_detect_display from attempt (a, s) on: the first
\* attempt that succeeds ends the search
RECURSIVE auto_detect_from(_, _, _, _)
auto_detect_from(self, hw, a, s) ==
    IF a > Len(addresses_to_try) THEN self
    ELSE IF s > Len(sizes_to_try) THEN auto_detect_from(self, hw, a + 1, 1)
    ELSE IF initialize_succeeds(hw, addresses_to_try[a])
         THEN _initialize_display(self, hw, addresses_to_try[a],
                                  sizes_to_try[s][1], sizes_to_try[s][2])
         ELSE auto_detect_from(self, hw, a, s + 1)

_auto_detect_display(self, hw) == auto_detect_from(self, hw, 1, 1)

\* __init__(width, height, address, auto_detect, rotation) on hardware hw
\* (hw.libs is I2C_AVAILABLE)
__init__(width, height, address, auto_detect, rotation, hw) ==
    LET portrait == rotation \in {90, 270}
        self0 == [physical_width |-> width,
                  physical_height |-> height,
                  address |-> address,
                  available |-> FALSE,
                  last_battery_level |-> 100,
                  animation_frame |-> 0,
                  display_mode |-> "solar",
                  rotation |-> rotation,
                  logical_width |-> IF portrait THEN height ELSE width,
                  logical_height |-> IF portrait THEN width ELSE height]
    IN  IF ~hw.libs THEN self0
        ELSE IF initialize_succeeds(hw, address)
             THEN _initialize_display(self0, hw, address, width, height)
        ELSE IF auto_detect THEN _auto_detect_display(self0, hw)
        ELSE self0

-----------------------------------------------------------------------------
(* Drawing primitives.  The canvas of a call is the set of rectangles that  *)
(* reached draw.rectangle; `part` names the call site and `bar` the segment *)
(* index for the charge-bar stack (0 elsewhere).                            *)

\* mutant of safe_rectangle: a span of no width or no height is drawn too
safe_rectangle_of_any_span(self, part, bar, coords) ==
    LET cx1 == Max(0, Min(coords[1], self.logical_width - 1))
        cy1 == Max(0, Min(coords[2], self.logical_height - 1))
        cx2 == Max(0, Min(coords[3], self.logical_width - 1))
        cy2 == Max(0, Min(coords[4], self.logical_height - 1))
    IN  {[part |-> part, bar |-> bar, x1 |-> Min(cx1, cx2), y1 |-> Min(cy1, cy2),
          x2 |-> Max(cx1, cx2), y2 |-> Max(cy1, cy2)]}

\* mutant of safe_rectangle: the corners are ordered but not clamped
safe_rectangle_unclamped(self, part, bar, coords) ==
    LET x1 == Min(coords[1], coords[3])
        x2 == Max(coords[1], coords[3])
        y1 == Min(coords[2], coords[4])
        y2 == Max(coords[2], coords[4])
    IN  IF x2 > x1 /\ y2 > y1
        THEN {[part |-> part, bar |-> bar, x1 |-> x1, y1 |-> y1, x2 |-> x2, y2 |-> y2]}
        ELSE {}

\* safe_rectangle(draw, coords, **kwargs): clamp to the LOGICAL size, order
\* the corners, and draw only a span of positive width and height
safe_rectangle(self, part, bar, coords) ==
    LET cx1 == Max(0, Min(coords[1], self.logical_width - 1))
        cy1 == Max(0, Min(coords[2], self.logical_height - 1))
        cx2 == Max(0, Min(coords[3], self.logical_width - 1))
        cy2 == Max(0, Min(coords[4], self.logical_height - 1))
        x1 == IF cx2 < cx1 THEN cx2 ELSE cx1
        x2 == IF cx2 < cx1 THEN cx1 ELSE cx2
        y1 == IF cy2 < cy1 THEN cy2 ELSE cy1
        y2 == IF cy2 < cy1 THEN cy1 ELSE cy2
    IN  IF x2 > x1 /\ y2 > y1
        THEN {[part |-> part, bar |-> bar, x1 |-> x1, y1 |-> y1, x2 |-> x2, y2 |-> y2]}
        ELSE {}

\* safe_line(draw, coords, **kwargs): clamp the end points to the LOGICAL
\* size and draw the line between them; there is no test of the span
safe_line(self, part, bar, coords) ==
    {[part |-> part, bar |-> bar,
      x1 |-> Max(0, Min(coords[1], self.logical_width - 1)),
      y1 |-> Max(0, Min(coords[2], self.logical_height - 1)),
      x2 |-> Max(0, Min(coords[3], self.logical_width - 1)),
      y2 |-> Max(0, Min(coords[4], self.logical_height - 1))]}

\* int((battery_level / 100.0) * span) in double arithmetic: the quotient
\* battery_level / 100.0 and the product are each rounded to a double before
\* the truncation.  For the levels 0..100 and the spans the source uses (12
\* and 16 bars; bar lengths 10, 18, 28, 42, 50 and 106) the result is the
\* exact quotient, except that 0.58 * 50 is 28.999999999999996
scaled(battery_level, span) ==
    IF battery_level = 58 /\ span = 50
    THEN 28
    ELSE (battery_level * span) \div 100

\* mutant of bars_to_fill: the position inside the current step, as computed
\* for the partial bar, scaled to the bars
bars_to_fill_of_remainder(battery_level, num_bars) ==
    (((battery_level * num_bars) % 100) * num_bars) \div 100

\* bars_to_fill = int((battery_level / 100.0) * num_bars)
bars_to_fill(battery_level, num_bars) == scaled(battery_level, num_bars)

\* 100.0 / num_bars is a double: 6.25 exactly for 16 bars, and for 12 bars the
\* nearest double to 25/3, which lies above it
step_rounds_up(num_bars) == num_bars = 12

\* the partial bar: fill_percentage = (battery_level % step) / step with
\* step = 100.0 / num_bars, drawn only if fill_percentage > 0, then
\* fill_width = max(1, int((width - 2) * fill_percentage)); 0 stands for "no
\* partial fill".  At a level that is an exact multiple of 100 / num_bars the
\* float remainder is 0 when the step is exact and just below one whole step
\* when the step was rounded up.  (Agrees with the doubles for levels 0..100
\* on the source's layouts: 12 bars of width 8, 16 bars of width 12.)
partial_fill_width(width, battery_level, num_bars) ==
    LET r == (battery_level * num_bars) % 100
    IN  IF r = 0
        THEN IF step_rounds_up(num_bars) /\ battery_level > 0
             THEN Max(1, width - 3)
             ELSE 0
        ELSE Max(1, ((width - 2) * r) \div 100)

\* one iteration of the loop of draw_vertical_charge_bars, for segment i
\* (0 is the top one)
charge_bar_segment(self, x, y, width, bar_height, battery_level, num_bars, i) ==
    LET bar_spacing == 2
        bar_y == y + i * (bar_height + bar_spacing)
        bar_from_bottom == num_bars - 1 - i
        fill_width == partial_fill_width(width, battery_level, num_bars)
    IN  IF bar_y + bar_height >= self.logical_height - 10
        THEN {}
        ELSE safe_rectangle(self, "outline", i,
                            <<x, bar_y, x + width, bar_y + bar_height>>)
             \cup
             (IF bar_from_bottom < bars_to_fill(battery_level, num_bars)
              THEN safe_rectangle(self, "full", i,
                       <<x + 1, bar_y + 1, x + width - 1, bar_y + bar_height - 1>>)
              ELSE IF bar_from_bottom = bars_to_fill(battery_level, num_bars)
                      /\ fill_width > 0
              THEN safe_rectangle(self, "partial", i,
                       <<x + 1, bar_y + 1, x + 1 + fill_width, bar_y + bar_height - 1>>)
              ELSE {})

\* draw_vertical_charge_bars(draw, x, y, width, height, battery_level, num_bars)
draw_vertical_charge_bars(self, x, y, width, height, battery_level, num_bars) ==
    LET bar_spacing == 2
        available_height == height - (bar_spacing * (num_bars - 1))
        bar_height == Max(2, available_height \div num_bars)
    IN  UNION {charge_bar_segment(self, x, y, width, bar_height,
                                  battery_level, num_bars, i) : i \in 0..(num_bars - 1)}

\* the layout-dependent call of draw_vertical_charge_bars in the solar view
solar_charge_bars(self, battery_level) ==
    IF self.rotation \in {90, 270}
    THEN draw_vertical_charge_bars(self, 25, 35, 12, 80, battery_level, 16)
    ELSE draw_vertical_charge_bars(self, 45, 15, 8, 35, battery_level, 12)

\* number of segments of the stack in the layout of self
solar_num_bars(self) == IF self.rotation \in {90, 270} THEN 16 ELSE 12

-----------------------------------------------------------------------------
(* The three views.  A view returns the controller after the call (self),   *)
(* the size of the bitmap it passed to display.image (handed, NoImage if it *)
(* got none that far), whether display.image and display.show completed     *)
(* (shown), the canvas, where the followed pixels are in the bitmap         *)
(* (placed), the step that failed in the call (failed) and whether the call *)
(* left by an exception (raised).  `fault` is the step that raises if the   *)
(* call gets to it: "font" ImageFont.truetype, "sun" inside draw_sun,       *)
(* "bars" inside draw_vertical_charge_bars, "particles" inside              *)
(* draw_vertical_energy_particles, "draw" a text or rectangle call of the   *)
(* view itself, "panel" the bus write; "none" for no failure.               *)
(* Text, the sun glyph and the energy particles are drawn by the source     *)
(* but are not part of the recorded canvas.                                 *)

Faults == {"none", "font", "sun", "bars", "particles", "draw", "panel"}

\* mutant of except_Exception: the exception is raised again
except_Exception_reraising(r) == r

\* try: ... except Exception as e: print(...): the operation returns normally
\* with whatever the body did before it raised
except_Exception(r) == [r EXCEPT !.raised = FALSE]

\* "Convert logical image to physical display": for 90 and 270 the rotated
\* canvas is pasted into a new physical-size image, otherwise the logical
\* canvas itself is the final image
final_image_size(self) ==
    IF self.rotation \in {90, 270}
    THEN <<self.physical_width, self.physical_height>>
    ELSE <<self.logical_width, self.logical_height>>

\* Image.transpose(method) of an image of the given size: where the pixel xy
\* of the image is in the result.  ROTATE_90 turns the image counter-clockwise
\* (its top-right corner becomes the top-left one), ROTATE_270 clockwise.
transpose(method, size, xy) ==
    CASE method = "ROTATE_90" -> <<xy[2], size[1] - 1 - xy[1]>>
      [] method = "ROTATE_180" -> <<size[1] - 1 - xy[1], size[2] - 1 - xy[2]>>
      [] method = "ROTATE_270" -> <<size[2] - 1 - xy[2], xy[1]>>

\* rotate_image_for_display(image): where the pixel xy of an image of the
\* given size is in the image returned
rotate_image_for_display(self, size, xy) ==
    IF self.rotation = 90 THEN transpose("ROTATE_90", size, xy)
    ELSE IF self.rotation = 180 THEN transpose("ROTATE_180", size, xy)
    ELSE IF self.rotation = 270 THEN transpose("ROTATE_270", size, xy)
    ELSE xy

\* a pixel that physical_image.paste(rotated_logical, (0, 0)) cut off
Clipped == <<-1, -1>>

\* mutant of to_physical: the transposition of rotate_image_for_display
to_physical_as_rotate_image_for_display(self, xy) ==
    rotate_image_for_display(self, <<self.logical_width, self.logical_height>>, xy)

\* mutant of to_physical: the test for the portrait rotations negated
to_physical_of_landscape(self, xy) ==
    IF self.rotation \notin {90, 270}
    THEN transpose(IF self.rotation = 0 THEN "ROTATE_270" ELSE "ROTATE_90",
                   <<self.logical_width, self.logical_height>>, xy)
    ELSE xy

\* "Convert logical image to physical display" / "Handle rotation for
\* display", the same in the three views: where the pixel xy of the logical
\* canvas is in final_image
to_physical(self, xy) ==
    IF self.rotation \in {90, 270}
    THEN LET rotated == transpose(IF self.rotation = 90 THEN "ROTATE_270"
                                                         ELSE "ROTATE_90",
                                  <<self.logical_width, self.logical_height>>, xy)
         IN  IF rotated[1] < self.physical_width /\ rotated[2] < self.physical_height
             THEN rotated
             ELSE Clipped
    ELSE xy

\* the pixels of the logical canvas that are followed to the final image: the
\* corners, the middles of the edges and one pixel inside
Probes(self) ==
    {0, 3, self.logical_width - 1} \X {0, 5, self.logical_height - 1}

\* display.image(final_image); display.show(): the driver, constructed with
\* the physical size in _initialize_display, raises on a bitmap of another
\* size, and the bus write itself may raise
panel_accepts(self, image_size, fault) ==
    /\ fault = "none"
    /\ image_size = <<self.physical_width, self.physical_height>>

\* what a view that returned early or raised before display.image leaves
skipped(self) ==
    [self |-> self, handed |-> NoImage, shown |-> FALSE, canvas |-> {},
     placed |-> <<>>, failed |-> "none", raised |-> FALSE, badge |-> FALSE]

\* what a body leaves whose step `failed` raised before display.image
raising(self, failed) ==
    [skipped(self) EXCEPT !.failed = failed, !.raised = TRUE]

\* the end of every view: hand the final image to the panel; `failed` is the
\* step that failed before and was recovered from
present(self, fault, failed, canvas) ==
    LET accepted == panel_accepts(self, final_image_size(self), fault)
    IN  [self |-> self,
         handed |-> final_image_size(self),
         shown |-> accepted,
         canvas |-> canvas,
         placed |-> [xy \in Probes(self) |-> to_physical(self, xy)],
         failed |-> IF fault = "panel" THEN "panel" ELSE failed,
         raised |-> ~accepted,
         badge |-> FALSE]

\* the try block of show_startup_message: the image is created in the
\* PHYSICAL size, turned by rotate_image_for_display and handed to the panel
show_startup_message_body(self, fault) ==
    IF fault = "draw" THEN raising(self, "draw")
    ELSE LET size == <<self.physical_width, self.physical_height>>
             rotated_size == IF self.rotation \in {90, 270}
                             THEN <<size[2], size[1]>> ELSE size
             accepted == panel_accepts(self, rotated_size, fault)
         IN  [self |-> self,
              handed |-> rotated_size,
              shown |-> accepted,
              canvas |-> {},
              placed |-> [xy \in {0, 3, size[1] - 1} \X {0, 5, size[2] - 1} |->
                             rotate_image_for_display(self, size, xy)],
              failed |-> IF fault \in {"font", "panel"} THEN fault ELSE "none",
              raised |-> ~accepted,
              badge |-> FALSE]

show_startup_message(self, fault) ==
    IF ~self.available THEN skipped(self)
    ELSE except_Exception(show_startup_message_body(self, fault))

\* "Increment animation frame" at the end of show_solar_panel_mode
next_animation_frame(animation_frame) ==
    IF animation_frame + 1 > 360 THEN 0 ELSE animation_frame + 1

\* "Charging status": whether the text "CHG" is drawn,
\* if is_charging: if self.animation_frame % 20 < 10
chg_badge(self, is_charging) ==
    is_charging /\ self.animation_frame % 20 < 10

\* the try block of show_solar_panel_mode.  A failure of ImageFont.truetype is
\* answered with the default font, and draw_sun, draw_vertical_energy_particles
\* and draw_vertical_charge_bars each catch what is raised inside them (a
\* failing draw_vertical_charge_bars is taken to fail at its first step), so
\* the view goes on after these; a text or rectangle call of the view itself
\* that raises ends the block.
show_solar_panel_mode_body(self, battery_level, solar_power, is_charging, time_to_full, fault) ==
    IF fault = "draw" THEN raising(self, "draw")
    ELSE LET failed == IF fault \in {"font", "sun", "bars"}
                          \/ (fault = "particles" /\ is_charging)
                       THEN fault ELSE "none"
             canvas == IF fault = "bars" THEN {}
                       ELSE solar_charge_bars(self, battery_level)
             r == [present(self, fault, failed, canvas)
                      EXCEPT !.badge = chg_badge(self, is_charging)]
         IN  IF r.shown
             THEN [r EXCEPT !.self.animation_frame =
                                next_animation_frame(self.animation_frame)]
             ELSE r

show_solar_panel_mode(self, battery_level, solar_power, is_charging, time_to_full, fault) ==
    IF ~self.available THEN skipped(self)
    ELSE except_Exception(show_solar_panel_mode_body(self, battery_level,
                              solar_power, is_charging, time_to_full, fault))

\* the single battery bar of the battery-focus view
battery_focus_bar(self, battery_level) ==
    IF self.rotation \in {90, 270}
    THEN LET bar_x == 10
             bar_y == 70
             bar_width == self.logical_width - 20
             bar_height == 30
             fill_height == scaled(battery_level, bar_height - 2)
         IN  safe_rectangle(self, "battery_outline", 0,
                            <<bar_x, bar_y, bar_x + bar_width, bar_y + bar_height>>)
             \cup
             (IF fill_height > 0
              THEN safe_rectangle(self, "battery_fill", 0,
                       <<bar_x + 1, bar_y + bar_height - 1 - fill_height,
                         bar_x + bar_width - 1, bar_y + bar_height - 1>>)
              ELSE {})
    ELSE LET bar_x == 10
             bar_y == 42
             bar_width == self.logical_width - 20
             bar_height == 12
             fill_width == scaled(battery_level, bar_width - 2)
         IN  safe_rectangle(self, "battery_outline", 0,
                            <<bar_x, bar_y, bar_x + bar_width, bar_y + bar_height>>)
             \cup
             (IF fill_width > 0
              THEN safe_rectangle(self, "battery_fill", 0,
                       <<bar_x + 1, bar_y + 1, bar_x + 1 + fill_width, bar_y + bar_height - 1>>)
              ELSE {})

\* mutant of show_battery_focus_body: a failing draw call is passed over and
\* the view goes on to the panel
show_battery_focus_body_passing_over(self, battery_level, voltage, charging, fault) ==
    present(self, fault, IF fault \in {"font", "draw"} THEN fault ELSE "none",
            battery_focus_bar(self, battery_level))

\* the try block of show_battery_focus
show_battery_focus_body(self, battery_level, voltage, charging, fault) ==
    IF fault = "draw" THEN raising(self, "draw")
    ELSE present(self, fault, IF fault = "font" THEN "font" ELSE "none",
                 battery_focus_bar(self, battery_level))

show_battery_focus(self, battery_level, voltage, charging, fault) ==
    IF ~self.available THEN skipped(self)
    ELSE except_Exception(show_battery_focus_body(self, battery_level,
                              voltage, charging, fault))

\* the battery bar of the normal view
normal_status_bar(self, battery_level) ==
    IF self.rotation \in {90, 270}
    THEN LET bar_x == 10
             bar_y == 80
             bar_width == self.logical_width - 20
             bar_height == 20
             fill_height == scaled(battery_level, bar_height - 2)
         IN  safe_rectangle(self, "battery_outline", 0,
                            <<bar_x, bar_y, bar_x + bar_width, bar_y + bar_height>>)
             \cup
             (IF fill_height > 0
              THEN safe_rectangle(self, "battery_fill", 0,
                       <<bar_x + 1, bar_y + bar_height - 1 - fill_height,
                         bar_x + bar_width - 1, bar_y + bar_height - 1>>)
              ELSE {})
    ELSE LET bar_x == 70
             bar_y == 36
             bar_width == 52
             bar_height == 6
             fill_width == scaled(battery_level, bar_width - 2)
         IN  safe_rectangle(self, "battery_outline", 0,
                            <<bar_x, bar_y, bar_x + bar_width, bar_y + bar_height>>)
             \cup
             (IF fill_width > 0
              THEN safe_rectangle(self, "battery_fill", 0,
                       <<bar_x + 1, bar_y + 1, bar_x + 1 + fill_width, bar_y + bar_height - 1>>)
              ELSE {})

\* the rule under the header of the normal view:
\* draw.line([(0, 12), (self.logical_width, 12)], fill=255), on the drawing
\* context itself
header_line(self) ==
    {[part |-> "header_line", bar |-> 0,
      x1 |-> 0, y1 |-> 12, x2 |-> self.logical_width, y2 |-> 12]}

\* _show_normal_status has no availability check of its own: on a controller
\* without a panel self.display is None and the call raises at display.image,
\* inside the try
_show_normal_status_body(self, walle_state, fault) ==
    IF fault = "draw" THEN raising(self, "draw")
    ELSE IF ~self.available THEN raising(self, "panel")
    ELSE present(self, fault, IF fault = "font" THEN "font" ELSE "none",
                 header_line(self)
                 \cup normal_status_bar(self, Get(walle_state, "battery_level", 100)))

_show_normal_status(self, walle_state, fault) ==
    except_Exception(_show_normal_status_body(self, walle_state, fault))

-----------------------------------------------------------------------------
(* modules/battery_monitor.py.  A callback attribute is TRUE when a callback *)
(* is registered (None otherwise); a reading is the percentage that            *)
(* voltage_to_percentage gives for the voltage read.                        *)

\* BatteryMonitor.__init__, which ends with start_monitoring()
BatteryMonitor__init__ ==
    [battery_percentage |-> 100,
     is_charging |-> FALSE,
     low_battery_warning |-> FALSE,
     low_battery_callback |-> FALSE,
     critical_battery_callback |-> FALSE,
     monitoring |-> TRUE]

\* mutant of _update_battery_readings: the warning is cleared above 20 %
_update_battery_readings_without_hysteresis(self, percentage) ==
    LET raise == percentage <= 20 /\ ~self.low_battery_warning
    IN  [self |-> [self EXCEPT
                      !.battery_percentage = percentage,
                      !.low_battery_warning =
                          IF raise THEN TRUE
                          ELSE IF percentage > 20 THEN FALSE ELSE @],
         low_called |-> raise /\ self.low_battery_callback,
         critical_called |-> percentage <= 5 /\ self.critical_battery_callback]

\* _update_battery_readings(), the reading being `percentage`: the object
\* after it and whether each callback was invoked
_update_battery_readings(self, percentage) ==
    LET old_percentage == self.battery_percentage
        raise == percentage <= 20 /\ ~self.low_battery_warning
    IN  [self |-> [self EXCEPT
                      !.battery_percentage = percentage,
                      !.is_charging =
                          IF percentage > old_percentage + 2 THEN TRUE
                          ELSE IF percentage < old_percentage - 1 THEN FALSE
                          ELSE @,
                      !.low_battery_warning =
                          IF raise THEN TRUE
                          ELSE IF percentage > 25 THEN FALSE ELSE @],
         low_called |-> raise /\ self.low_battery_callback,
         critical_called |-> percentage <= 5 /\ self.critical_battery_callback]

-----------------------------------------------------------------------------
(* update_status *)

\* mutant of select_display_mode: the critical threshold at 10
select_display_mode_below_10(self, battery_level) ==
    [self EXCEPT !.display_mode = IF battery_level < 10 THEN "battery" ELSE "solar"]

\* mutant of select_display_mode: the threshold compared with <=
select_display_mode_through_15(self, battery_level) ==
    [self EXCEPT !.display_mode = IF battery_level <= 15 THEN "battery" ELSE "solar"]

\* mutant of select_display_mode: display_mode is not reset to 'solar' first
select_display_mode_sticky(self, battery_level) ==
    [self EXCEPT !.display_mode = IF battery_level < 15 THEN "battery" ELSE @]

\* "Solar mode is default ... Only switch to other modes in special cases":
\* display_mode is assigned afresh on every call
select_display_mode(self, battery_level) ==
    [self EXCEPT !.display_mode = IF battery_level < 15 THEN "battery" ELSE "solar"]

\* a result of update_status: the result r of what it ran and the views it
\* invoked
with_views(r, views) ==
    [self |-> r.self, handed |-> r.handed, shown |-> r.shown, canvas |-> r.canvas,
     placed |-> r.placed, failed |-> r.failed, raised |-> r.raised,
     badge |-> r.badge, views |-> views]

\* the try block of update_status(walle_state).  A walle_state that is no
\* dict (None) raises at walle_state.get.
update_status_body(self, walle_state, fault) ==
    IF "not_a_dict" \in DOMAIN walle_state
    THEN with_views(raising(self, "snapshot"), <<>>)
    ELSE LET battery_level == Get(walle_state, "battery_level", 100)
             is_charging == Get(walle_state, "is_charging", FALSE)
             solar_power == Get(walle_state, "solar_power", 0)
             self1 == select_display_mode(self, battery_level)
             r == IF self1.display_mode = "solar"
                  THEN show_solar_panel_mode(self1, battery_level, solar_power,
                           is_charging, Get(walle_state, "time_to_full", 0), fault)
                  ELSE IF self1.display_mode = "battery"
                  THEN show_battery_focus(self1, battery_level,
                           Get(walle_state, "battery_voltage", 0), is_charging, fault)
                  ELSE _show_normal_status(self1, walle_state, fault)
             view == IF self1.display_mode \in {"solar", "battery"}
                     THEN self1.display_mode ELSE "normal"
         IN  IF r.raised
             THEN with_views(r, <<view>>)
             ELSE with_views([r EXCEPT !.self.last_battery_level = battery_level],
                             <<view>>)

\* mutant of update_status: without the test of self.available
update_status_unguarded(self, walle_state, fault) ==
    except_Exception(update_status_body(self, walle_state, fault))

update_status(self, walle_state, fault) ==
    IF ~self.available
    THEN with_views(skipped(self), <<>>)
    ELSE except_Exception(update_status_body(self, walle_state, fault))

-----------------------------------------------------------------------------
(* Inputs.  solar_power is in tenths of a watt.  An environment gives the   *)
(* initial states (constructor arguments and hardware), the arguments each  *)
(* operation is called with, the faults, the number of solar frames shown   *)
(* in a behaviour, how far the battery level of a solar frame may be from   *)
(* the level of the call before it, and whether `earlier` is kept.          *)

\* levels at the critical threshold, and the two levels of the spec's scenarios
ThresholdLevels == ((15 - LevelRadius)..(15 + LevelRadius - 1)) \cup {10, 50}

Rotations == {0, 90, 180, 270}

\* EnhancedDisplayController(width, height, rotation=..., auto_detect=True)
\* on a bus where the panels of `devices` answer
Setup(size, rotation, devices) ==
    [width |-> size[1], height |-> size[2], rotation |-> rotation,
     auto_detect |-> TRUE, hw |-> [libs |-> TRUE, devices |-> devices]]

\* the default controller with its panel at the default address 0x3C
PanelFound == {Setup(<<128, 64>>, r, {60}) : r \in Rotations}

\* a controller constructed for a 128x32 panel; the panel answers at 0x3D only
\* and is found by auto-detection
PanelAutoDetected == {Setup(<<128, 32>>, r, {61}) : r \in Rotations}

\* no panel on the bus, or no display libraries
NoPanel ==
    {Setup(<<128, 64>>, r, {}) : r \in Rotations}
    \cup {[Setup(<<128, 64>>, 0, {60}) EXCEPT !.hw.libs = FALSE]}

Snapshots(levels, charging, solar) ==
    [battery_level : levels, is_charging : charging, solar_power : solar]

MainEnv ==
    [setups |-> PanelFound \cup PanelAutoDetected \cup NoPanel,
     \* the application's walle_state always carries the three keys; a dict
     \* without them takes the defaults
     snapshots |-> Snapshots(ThresholdLevels, BOOLEAN, {0, 12}) \cup {[mode |-> "idle"]},
     solar_args |-> {<<50, 12, TRUE>>},
     battery_args |-> {<<10, FALSE>>},
     normal_args |-> {50},
     faults |-> {"none", "panel"},
     max_renders |-> MaxRenders, max_drift |-> 100, track |-> FALSE]

\* the application's controller, EnhancedDisplayController(rotation=270), with
\* its panel present, run through the whole period of the animation counter
AnimEnv ==
    [setups |-> {Setup(<<128, 64>>, 270, {60})},
     snapshots |-> Snapshots({10, 50}, {TRUE}, {12}),
     solar_args |-> {<<50, 12, TRUE>>},
     battery_args |-> {<<10, FALSE>>},
     normal_args |-> {50},
     faults |-> {"none", "draw", "panel"},
     max_renders |-> MaxAnimRenders, max_drift |-> 100, track |-> FALSE]

\* pairs of consecutive calls around the critical threshold
PairEnv ==
    [setups |-> PanelFound \cup {Setup(<<128, 64>>, 270, {})},
     snapshots |-> Snapshots((15 - LevelRadius)..(15 + LevelRadius - 1), BOOLEAN, {0}),
     solar_args |-> {<<50, 12, TRUE>>},
     battery_args |-> {<<10, FALSE>>},
     normal_args |-> {50},
     faults |-> {"none", "panel"},
     max_renders |-> MaxRenders, max_drift |-> 100, track |-> TRUE]

\* pairs of consecutive solar frames over the whole range of battery levels,
\* the level moving by at most MaxDrift from one call to the next
BarsEnv ==
    [setups |-> PanelFound,
     snapshots |-> Snapshots({50}, {TRUE}, {12}),
     solar_args |-> (0..100) \X {12} \X {TRUE},
     battery_args |-> {<<10, FALSE>>},
     normal_args |-> {50},
     faults |-> {"none"},
     max_renders |-> MaxRenders + 1, max_drift |-> MaxDrift, track |-> TRUE]

NoCall ==
    [op |-> "none", battery_level |-> 100, is_charging |-> FALSE, solar_power |-> 0,
     mode_before |-> "solar", frame_before |-> 0, views |-> <<>>,
     handed |-> NoImage, shown |-> FALSE, canvas |-> {}, placed |-> <<>>,
     failed |-> "none", raised |-> FALSE, badge |-> FALSE, args |-> <<>>]

\* every failure of a step of a call, on the controller with and without a
\* panel, and a snapshot that is no dict
FaultEnv ==
    [setups |-> PanelFound \cup {Setup(<<128, 64>>, 270, {})},
     snapshots |-> Snapshots({10, 50}, BOOLEAN, {12}) \cup {[not_a_dict |-> TRUE]},
     solar_args |-> {<<50, 12, TRUE>>, <<50, 0, FALSE>>},
     battery_args |-> {<<10, FALSE>>},
     normal_args |-> {50},
     faults |-> Faults,
     max_renders |-> MaxRenders, max_drift |-> 100, track |-> FALSE]

\* the drawing primitives called directly on a fresh canvas
PrimEnv ==
    [setups |-> PanelFound,
     faults |-> {"none"},
     max_renders |-> MaxRenders, max_drift |-> 100, track |-> FALSE]

\* app.py: display = EnhancedDisplayController(rotation=270), with and without
\* its panel; walle_state carries is_charging = True and solar_power = 1.2 and
\* the battery level the battery monitor reports
AppEnv ==
    [setups |-> {Setup(<<128, 64>>, 270, {60}), Setup(<<128, 64>>, 270, {})},
     snapshots |-> Snapshots({10, 50, 100}, {TRUE}, {12}),
     faults |-> {"none", "panel"},
     max_renders |-> MaxRenders, max_drift |-> 100, track |-> FALSE]

\* the battery-focus and normal views over the whole range of battery levels
GaugeEnv ==
    [setups |-> PanelFound,
     snapshots |-> Snapshots({10, 50}, {FALSE}, {0}),
     solar_args |-> {<<50, 12, TRUE>>},
     battery_args |-> (0..100) \X {FALSE},
     normal_args |-> 0..100,
     faults |-> {"none"},
     max_renders |-> MaxRenders, max_drift |-> 100, track |-> FALSE]

\* the startup message and the views on the default panel in every rotation
RotEnv ==
    [setups |-> PanelFound,
     snapshots |-> Snapshots({10, 50}, {TRUE}, {12}),
     solar_args |-> {<<50, 12, TRUE>>},
     battery_args |-> {<<10, FALSE>>},
     normal_args |-> {50},
     faults |-> {"none", "panel"},
     max_renders |-> MaxRenders, max_drift |-> 100, track |-> TRUE]

\* walle_state as the module builds it: the fields that the commands and the
\* sensor thread write
initial_walle_state ==
    [mode |-> "idle",
     battery_level |-> 100,
     sensors |-> [front |-> 0, left |-> 0, right |-> 0],
     servo_positions |-> [head_pan |-> 90, head_tilt |-> 90,
                          left_arm |-> 90, right_arm |-> 90],
     motors |-> [left_speed |-> 0, right_speed |-> 0],
     connected |-> FALSE]

\* arduino = None
NoArduino == [exists |-> FALSE, connected |-> FALSE]

\* no operation has written walle_state yet
NoCommand ==
    [handler |-> "none", command |-> "none", before |-> initial_walle_state,
     outcome |-> "none"]

\* the application after initialize_hardware() with the given arduino and
\* audio objects (audio is FALSE for None)
WalleStarted(arduino, audio) ==
    [state |-> [initial_walle_state EXCEPT
                   !.connected = arduino.exists /\ arduino.connected],
     arduino |-> arduino, audio |-> audio,
     last |-> NoCommand]

\* ESP32_CAM_IP = None; the camera is not on the network, the monitoring
\* thread is at the top of its loop and no status request has come in
CameraStarted ==
    [ip |-> "None", online |-> "None", found |-> {},
     monitor |-> [pc |-> "top", connected |-> FALSE],
     request |-> [pc |-> "idle"],
     response |-> [sent |-> FALSE, connected |-> FALSE, ip |-> "None"]]

\* battery = BatteryMonitor(): the constructor has started the monitoring
\* thread; initialize_hardware has not registered its callbacks yet
BatteryConstructed ==
    [monitor |-> BatteryMonitor__init__,
     init |-> "set_low_battery_callback",
     seen |-> [processed |-> FALSE, reading |-> 100, warning_before |-> FALSE,
               low_called |-> FALSE, critical_called |-> FALSE,
               critical_registered |-> FALSE, low_calls_since_high |-> 0]]

\* the threads as __main__ starts them, after initialize_hardware()
ThreadsStarted == [sensor |-> "loop", startup |-> "sleep", handler |-> "idle"]

\* the environment named by env
Env ==
    CASE env = "main" -> MainEnv
      [] env = "anim" -> AnimEnv
      [] env = "pair" -> PairEnv
      [] env = "bars" -> BarsEnv
      [] env = "prim" -> PrimEnv
      [] env = "fault" -> FaultEnv
      [] env = "app" -> AppEnv
      [] env = "gauge" -> GaugeEnv
      [] env = "rot" -> RotEnv

NoSnapshot ==
    [kind |-> "none", battery_level |-> 100, is_charging |-> FALSE, solar_power |-> 0]

\* the display, the threads and the battery monitor in the environment e
InitDisplay(e) ==
    /\ env = e
    /\ \E c \in Env.setups :
           display = __init__(c.width, c.height, 60, c.auto_detect, c.rotation, c.hw)
    /\ call = NoCall
    /\ earlier = NoCall
    /\ renders = 0
    /\ steady = NoSnapshot
    /\ chg_run = [shown |-> 0, hidden |-> 0]
    /\ threads = ThreadsStarted
    /\ battery = BatteryConstructed

InitEnv(e) ==
    /\ InitDisplay(e)
    /\ walle = WalleStarted(NoArduino, FALSE)
    /\ camera = CameraStarted

Init == InitEnv("main")

-----------------------------------------------------------------------------
(* The calls *)

\* the effect of one call on the state; a call that shows a solar frame is
\* taken only while the behaviour's frame budget lasts
Called(op, battery_level, is_charging, solar_power, views, r) ==
    LET advanced == r.self.animation_frame # display.animation_frame
        snapshot == [kind |-> "fixed", battery_level |-> battery_level,
                     is_charging |-> is_charging, solar_power |-> solar_power]
    IN  /\ advanced => renders < Env.max_renders
        /\ display' = r.self
        /\ call' = [op |-> op, battery_level |-> battery_level,
                    is_charging |-> is_charging, solar_power |-> solar_power,
                    mode_before |-> display.display_mode,
                    frame_before |-> display.animation_frame,
                    views |-> views, handed |-> r.handed, shown |-> r.shown,
                    canvas |-> r.canvas, placed |-> r.placed,
                    failed |-> r.failed, raised |-> r.raised, badge |-> r.badge,
                    args |-> <<>>]
        /\ earlier' \in (IF Env.track THEN {call, earlier} ELSE {earlier})
        /\ renders' = IF advanced THEN renders + 1 ELSE renders
        /\ chg_run' = IF ~(r.shown /\ views = <<"solar">>) THEN chg_run
                      ELSE IF ~is_charging THEN [shown |-> 0, hidden |-> 0]
                      ELSE IF r.badge THEN [shown |-> chg_run.shown + 1, hidden |-> 0]
                      ELSE [shown |-> 0, hidden |-> chg_run.hidden + 1]
        /\ steady' = IF op = "update_status" /\ steady \in {NoSnapshot, snapshot}
                     THEN snapshot
                     ELSE [NoSnapshot EXCEPT !.kind = "mixed"]
        /\ UNCHANGED <<env, others>>

\* display.update_status(walle_state) called and returned
StatusUpdated ==
    \E walle_state \in Env.snapshots, fault \in Env.faults :
        LET r == update_status(display, walle_state, fault)
        IN  Called("update_status",
                   Get(walle_state, "battery_level", 100),
                   Get(walle_state, "is_charging", FALSE),
                   Get(walle_state, "solar_power", 0),
                   r.views, r)

UpdateStatus == StatusUpdated /\ UNCHANGED threads

\* the battery level of a solar frame stays within max_drift of the level of
\* the call before it
Drifted(battery_level) ==
    \/ call.op = "none"
    \/ /\ battery_level - call.battery_level <= Env.max_drift
       /\ call.battery_level - battery_level <= Env.max_drift

ShowSolarPanelMode ==
    \E a \in Env.solar_args, fault \in Env.faults :
        /\ Drifted(a[1])
        /\ Called("show_solar_panel_mode", a[1], a[3], a[2],
                  IF display.available THEN <<"solar">> ELSE <<>>,
                  show_solar_panel_mode(display, a[1], a[2], a[3], 0, fault))
        /\ UNCHANGED threads

ShowBatteryFocus ==
    \E a \in Env.battery_args, fault \in Env.faults :
        /\ Called("show_battery_focus", a[1], a[2], 0,
                  IF display.available THEN <<"battery">> ELSE <<>>,
                  show_battery_focus(display, a[1], 0, a[2], fault))
        /\ UNCHANGED threads

ShowNormalStatus ==
    \E battery_level \in Env.normal_args, fault \in Env.faults :
        /\ Called("_show_normal_status", battery_level, FALSE, 0, <<"normal">>,
                  _show_normal_status(display, [battery_level |-> battery_level], fault))
        /\ UNCHANGED threads

Next ==
    \/ UpdateStatus
    \/ ShowSolarPanelMode
    \/ ShowBatteryFocus
    \/ ShowNormalStatus

Spec == Init /\ [][Next]_vars

InitAnim == InitEnv("anim")
SpecAnim == InitAnim /\ [][Next]_vars

InitPair == InitEnv("pair")
SpecPair == InitPair /\ [][Next]_vars

InitBars == InitEnv("bars")
SpecBars == InitBars /\ [][Next]_vars

\* show_startup_message(), as _initialize_display calls it
ShowStartupMessage ==
    \E fault \in Env.faults :
        /\ Called("show_startup_message", display.last_battery_level, FALSE, 0,
                  <<>>, show_startup_message(display, fault))
        /\ UNCHANGED threads

NextRot ==
    \/ ShowStartupMessage
    \/ UpdateStatus
    \/ ShowSolarPanelMode
    \/ ShowBatteryFocus
    \/ ShowNormalStatus

InitRot == InitEnv("rot")
SpecRot == InitRot /\ [][NextRot]_vars

InitGauge == InitEnv("gauge")
SpecGauge == InitGauge /\ [][Next]_vars

InitFault == InitEnv("fault")
SpecFault == InitFault /\ [][Next]_vars

\* coordinates below, inside and beyond the canvas (100 is inside the width
\* and beyond the height of the 128x64 canvas, and the converse for 64x128)
PrimCoords == {-5, 10, 100, 200}

\* safe_rectangle(draw, coords, outline=255) on a fresh canvas
SafeRectangle ==
    \E x1 \in PrimCoords, y1 \in PrimCoords, x2 \in PrimCoords, y2 \in PrimCoords :
        /\ call' = [NoCall EXCEPT !.op = "safe_rectangle",
                                  !.args = <<x1, y1, x2, y2>>,
                                  !.canvas = safe_rectangle(display, "rect", 0,
                                                            <<x1, y1, x2, y2>>)]
        /\ UNCHANGED <<display, earlier, renders, steady, chg_run, env, threads, others>>

\* safe_line(draw, coords, fill=255) on a fresh canvas
SafeLine ==
    \E x1 \in PrimCoords, y1 \in PrimCoords, x2 \in PrimCoords, y2 \in PrimCoords :
        /\ call' = [NoCall EXCEPT !.op = "safe_line",
                                  !.args = <<x1, y1, x2, y2>>,
                                  !.canvas = safe_line(display, "line", 0,
                                                       <<x1, y1, x2, y2>>)]
        /\ UNCHANGED <<display, earlier, renders, steady, chg_run, env, threads, others>>

NextPrim ==
    \/ SafeRectangle
    \/ SafeLine

InitPrim == InitEnv("prim")
SpecPrim == InitPrim /\ [][NextPrim]_vars

-----------------------------------------------------------------------------
(* The threads of app.py.  A thread that is at "update_status" or at        *)
(* "show_message" is inside that call on the display.                       *)

\* mutant of Methods: the definitions nested in _show_normal_status counted
\* as methods of the class
MethodsWithNestedDefinitions ==
    {"__init__", "rotate_image_for_display", "_auto_detect_display",
     "_initialize_display", "show_startup_message", "safe_rectangle",
     "safe_line", "draw_sun", "draw_vertical_charge_bars",
     "draw_vertical_energy_particles", "show_solar_panel_mode",
     "update_status", "show_battery_focus", "_show_normal_status",
     "set_display_mode", "show_message", "clear_display", "get_display_info",
     "cleanup"}

\* the methods of EnhancedDisplayController: the definitions of the class
\* body.  set_display_mode, show_message, clear_display, get_display_info and
\* cleanup are defined inside the body of _show_normal_status and are no
\* attributes of the class.
Methods ==
    {"__init__", "rotate_image_for_display", "_auto_detect_display",
     "_initialize_display", "show_startup_message", "safe_rectangle",
     "safe_line", "draw_sun", "draw_vertical_charge_bars",
     "draw_vertical_energy_particles", "show_solar_panel_mode",
     "update_status", "show_battery_focus", "_show_normal_status"}

\* sensor_update_thread, top of the loop down to
\* `if display and display.available:`
SensorReads ==
    /\ threads.sensor = "loop"
    /\ threads' = [threads EXCEPT !.sensor =
                      IF display.available THEN "update_status" ELSE "emit"]
    /\ UNCHANGED <<display, call, earlier, renders, steady, chg_run, env, others>>

\* display.update_status(walle_state) returns to the sensor thread
SensorUpdatesDisplay ==
    /\ threads.sensor = "update_status"
    /\ StatusUpdated
    /\ threads' = [threads EXCEPT !.sensor = "emit"]

\* socketio.emit('status_update', ...); time.sleep(0.5)
SensorEmits ==
    /\ threads.sensor = "emit"
    /\ threads' = [threads EXCEPT !.sensor = "loop"]
    /\ UNCHANGED <<display, call, earlier, renders, steady, chg_run, env, others>>

\* play_startup_sequence: time.sleep(2) and the startup sound
StartupSleeps ==
    /\ threads.startup = "sleep"
    /\ threads' = [threads EXCEPT !.startup = "check"]
    /\ UNCHANGED <<display, call, earlier, renders, steady, chg_run, env, others>>

\* `if display and display.available:`
StartupChecksDisplay ==
    /\ threads.startup = "check"
    /\ threads' = [threads EXCEPT !.startup =
                      IF display.available THEN "calling" ELSE "done"]
    /\ UNCHANGED <<display, call, earlier, renders, steady, chg_run, env, others>>

\* display.show_message("WALL-E", "ONLINE", duration=3): the attribute is
\* looked up; if the class has no such method AttributeError ends the thread
StartupCallsShowMessage ==
    /\ threads.startup = "calling"
    /\ threads' = [threads EXCEPT !.startup =
                      IF "show_message" \in Methods THEN "show_message"
                                                    ELSE "raised"]
    /\ UNCHANGED <<display, call, earlier, renders, steady, chg_run, env, others>>

\* a request handler (a Flask route or a socket event) runs in a thread of the
\* web server; none of them uses `display`
HandlerBegins ==
    /\ threads.handler = "idle"
    /\ threads' = [threads EXCEPT !.handler = "handling"]
    /\ UNCHANGED <<display, call, earlier, renders, steady, chg_run, env, others>>

HandlerEnds ==
    /\ threads.handler = "handling"
    /\ threads' = [threads EXCEPT !.handler = "idle"]
    /\ UNCHANGED <<display, call, earlier, renders, steady, chg_run, env, others>>

NextApp ==
    \/ SensorReads
    \/ SensorUpdatesDisplay
    \/ SensorEmits
    \/ StartupSleeps
    \/ StartupChecksDisplay
    \/ StartupCallsShowMessage
    \/ HandlerBegins
    \/ HandlerEnds

InitApp == InitEnv("app")
SpecApp == InitApp /\ [][NextApp]_vars

-----------------------------------------------------------------------------
(* The battery monitor: its monitoring thread and initialize_hardware       *)

\* the readings: the thresholds 5, 20 and 25, their neighbours and the ends
BatteryReadings == {0, 5, 6, 20, 21, 25, 26, 100}

\* one turn of _monitoring_loop: _update_battery_readings(), then the sleep
MonitorUpdates ==
    \E percentage \in BatteryReadings :
        LET r == _update_battery_readings(battery.monitor, percentage)
        IN  /\ battery.monitor.monitoring
            /\ battery' =
                  [battery EXCEPT
                      !.monitor = r.self,
                      !.seen = [processed |-> TRUE,
                                reading |-> percentage,
                                warning_before |-> battery.monitor.low_battery_warning,
                                low_called |-> r.low_called,
                                critical_called |-> r.critical_called,
                                critical_registered |->
                                    battery.monitor.critical_battery_callback,
                                low_calls_since_high |->
                                    (IF percentage > 25 THEN 0
                                     ELSE battery.seen.low_calls_since_high)
                                    + (IF r.low_called THEN 1 ELSE 0)]]
            /\ UNCHANGED <<display, call, earlier, renders, steady, chg_run, env, threads,
                    walle, camera>>

\* initialize_hardware: battery.set_low_battery_callback(low_battery_callback)
SetLowBatteryCallback ==
    /\ battery.init = "set_low_battery_callback"
    /\ battery' = [battery EXCEPT !.monitor.low_battery_callback = TRUE,
                                  !.init = "set_critical_battery_callback"]
    /\ UNCHANGED <<display, call, earlier, renders, steady, chg_run, env, threads,
                   walle, camera>>

\* initialize_hardware: battery.set_critical_battery_callback(critical_battery_callback)
SetCriticalBatteryCallback ==
    /\ battery.init = "set_critical_battery_callback"
    /\ battery' = [battery EXCEPT !.monitor.critical_battery_callback = TRUE,
                                  !.init = "done"]
    /\ UNCHANGED <<display, call, earlier, renders, steady, chg_run, env, threads,
                   walle, camera>>

NextBattery ==
    \/ MonitorUpdates
    \/ SetLowBatteryCallback
    \/ SetCriticalBatteryCallback

SpecBattery == InitApp /\ [][NextBattery]_vars

-----------------------------------------------------------------------------
(* The commands of app.py: process_command (POST /api/command) and the      *)
(* manual_control socket event.  `fails` is whether a write to the serial   *)
(* port raises.  set_motor_speeds and set_servo catch a write that raises   *)
(* and leave the controller as it was; AudioSystem catches its own errors.  *)

\* ArduinoController.send_command: nothing is written when the controller is
\* not connected; a write that raises clears `connected`
send_command(self, fails) ==
    IF ~self.connected THEN self
    ELSE IF fails THEN [self EXCEPT !.connected = FALSE]
    ELSE self

\* ArduinoController.stop_all
stop_all(self, fails) == send_command(self, fails)

\* mutant of process_command: 'stop' records the stop only when there is an
\* arduino to stop
process_command_stopping_through_arduino(w, command, params, fails) ==
    LET speed == 150
        sent == IF w.arduino.exists THEN send_command(w.arduino, fails)
                                    ELSE w.arduino
        returned(after) == [walle |-> after, outcome |-> "returned"]
    IN  CASE command = "wake_up" ->
               returned([w EXCEPT !.state.mode = "greeting", !.arduino = sent])
          [] command = "explore" ->
               returned([w EXCEPT !.state.mode = "exploring", !.arduino = sent])
          [] command = "greeting" ->
               returned([w EXCEPT !.state.mode = "greeting", !.arduino = sent])
          [] command = "stop" ->
               IF w.arduino.exists
               THEN returned([w EXCEPT !.state.mode = "idle",
                                       !.state.motors.left_speed = 0,
                                       !.state.motors.right_speed = 0,
                                       !.arduino = stop_all(w.arduino, fails)])
               ELSE returned(w)
          [] command = "move" ->
               LET moving == [w EXCEPT !.state.mode = "moving"]
               IN  CASE params.direction = "forward" ->
                          returned([moving EXCEPT !.state.motors.left_speed = speed,
                                                  !.state.motors.right_speed = speed])
                     [] params.direction = "backward" ->
                          returned([moving EXCEPT !.state.motors.left_speed = -speed,
                                                  !.state.motors.right_speed = -speed])
                     [] params.direction = "left" ->
                          returned([moving EXCEPT !.state.motors.left_speed = (-speed) \div 2,
                                                  !.state.motors.right_speed = speed \div 2])
                     [] params.direction = "right" ->
                          returned([moving EXCEPT !.state.motors.left_speed = speed \div 2,
                                                  !.state.motors.right_speed = (-speed) \div 2])
                     [] OTHER -> returned(moving)
          [] command = "servo" ->
               returned([w EXCEPT !.state.servo_positions[params.servo] = params.angle])
          [] command = "sound" -> returned(w)
          [] OTHER -> [walle |-> w, outcome |-> "raised"]

\* process_command(command, params): the application after the call and
\* whether the call returned or raised (ValueError for an unknown command)
process_command(w, command, params, fails) ==
    LET speed == 150
        sent == IF w.arduino.exists THEN send_command(w.arduino, fails)
                                    ELSE w.arduino
        returned(after) == [walle |-> after, outcome |-> "returned"]
    IN  CASE command = "wake_up" ->
               returned([w EXCEPT !.state.mode = "greeting", !.arduino = sent])
          [] command = "explore" ->
               returned([w EXCEPT !.state.mode = "exploring", !.arduino = sent])
          [] command = "greeting" ->
               returned([w EXCEPT !.state.mode = "greeting", !.arduino = sent])
          [] command = "stop" ->
               returned([w EXCEPT !.state.mode = "idle",
                                  !.state.motors.left_speed = 0,
                                  !.state.motors.right_speed = 0,
                                  !.arduino = IF w.arduino.exists
                                              THEN stop_all(w.arduino, fails)
                                              ELSE w.arduino])
          [] command = "move" ->
               LET moving == [w EXCEPT !.state.mode = "moving"]
               IN  CASE params.direction = "forward" ->
                          returned([moving EXCEPT !.state.motors.left_speed = speed,
                                                  !.state.motors.right_speed = speed])
                     [] params.direction = "backward" ->
                          returned([moving EXCEPT !.state.motors.left_speed = -speed,
                                                  !.state.motors.right_speed = -speed])
                     [] params.direction = "left" ->
                          returned([moving EXCEPT !.state.motors.left_speed = (-speed) \div 2,
                                                  !.state.motors.right_speed = speed \div 2])
                     [] params.direction = "right" ->
                          returned([moving EXCEPT !.state.motors.left_speed = speed \div 2,
                                                  !.state.motors.right_speed = (-speed) \div 2])
                     [] OTHER -> returned(moving)
          [] command = "servo" ->
               returned([w EXCEPT !.state.servo_positions[params.servo] = params.angle])
          [] command = "sound" -> returned(w)
          [] OTHER -> [walle |-> w, outcome |-> "raised"]

\* handle_manual_control(data): the handler broadcasts status_update after
\* the command, whatever the command was
handle_manual_control(w, data, fails) ==
    CASE data.command = "motor_control" ->
           [walle |-> [w EXCEPT !.state.motors.left_speed = data.left_speed,
                                !.state.motors.right_speed = data.right_speed],
            outcome |-> "emitted"]
      [] data.command \in {"servo_head_pan", "servo_left_arm"} ->
           LET servo_name == IF data.command = "servo_head_pan" THEN "head_pan"
                                                                ELSE "left_arm"
           IN  [walle |-> [w EXCEPT !.state.servo_positions[servo_name] = data.value],
                outcome |-> "emitted"]
      [] data.command = "emergency_stop" ->
           [walle |-> [w EXCEPT !.state.mode = "idle",
                                !.state.motors.left_speed = 0,
                                !.state.motors.right_speed = 0,
                                !.arduino = IF w.arduino.exists
                                            THEN stop_all(w.arduino, fails)
                                            ELSE w.arduino],
            outcome |-> "emitted"]
      [] OTHER -> [walle |-> w, outcome |-> "emitted"]

\* the commands and parameters of a POST /api/command; "dance" is no command
CommandInputs ==
    ({"wake_up", "explore", "stop", "sound", "dance"}
        \X {[direction |-> "none", servo |-> "head_pan", angle |-> 90]})
    \cup ({"move"} \X [direction : {"forward", "left", "up"},
                        servo : {"head_pan"}, angle : {90}])
    \cup ({"servo"} \X [direction : {"none"}, servo : {"head_pan"},
                         angle : {0, 90}])

\* the data of a manual_control event
ManualInputs ==
    [command : {"motor_control"}, value : {0},
     left_speed : {-255, 100}, right_speed : {100}]
    \cup [command : {"servo_left_arm", "emergency_stop", "stop"}, value : {45},
          left_speed : {0}, right_speed : {0}]

\* what get_sensor_readings and get_battery_status report to the sensor thread
SensorInputs ==
    [sensors : {[front |-> 0, left |-> 0, right |-> 0],
                [front |-> 30, left |-> 10, right |-> 20]},
     percentage : {40, 100}]

ProcessCommand ==
    \E input \in CommandInputs, fails \in BOOLEAN :
        LET r == process_command(walle, input[1], input[2], fails)
        IN  /\ walle' = [r.walle EXCEPT
                            !.last = [handler |-> "process_command",
                                      command |-> input[1],
                                      before |-> walle.state,
                                      outcome |-> r.outcome]]
            /\ UNCHANGED <<display, call, earlier, renders, steady, chg_run,
                           env, threads, battery, camera>>

ManualControl ==
    \E data \in ManualInputs, fails \in BOOLEAN :
        LET r == handle_manual_control(walle, data, fails)
        IN  /\ walle' = [r.walle EXCEPT
                            !.last = [handler |-> "manual_control",
                                      command |-> data.command,
                                      before |-> walle.state,
                                      outcome |-> r.outcome]]
            /\ UNCHANGED <<display, call, earlier, renders, steady, chg_run,
                           env, threads, battery, camera>>

\* sensor_update_thread: the sensor readings, `connected` and the battery
\* level it writes to walle_state at the top of its loop
SensorThreadWrites ==
    \E input \in SensorInputs :
        /\ walle' =
              [walle EXCEPT
                  !.state.sensors = IF walle.arduino.exists /\ walle.arduino.connected
                                    THEN input.sensors ELSE @,
                  !.state.connected = walle.arduino.exists /\ walle.arduino.connected,
                  !.state.battery_level = input.percentage,
                  !.last = [handler |-> "sensor_update_thread",
                            command |-> "none",
                            before |-> walle.state,
                            outcome |-> "none"]]
        /\ UNCHANGED <<display, call, earlier, renders, steady, chg_run,
                       env, threads, battery, camera>>

NextCommands ==
    \/ ProcessCommand
    \/ ManualControl
    \/ SensorThreadWrites

\* initialize_hardware leaves arduino None, or an ArduinoController that is
\* connected or not, and audio None or an AudioSystem
InitCommands ==
    /\ InitDisplay("app")
    /\ camera = CameraStarted
    /\ \E exists \in BOOLEAN, connected \in BOOLEAN, audio \in BOOLEAN :
           walle = WalleStarted([exists |-> exists,
                                 connected |-> exists /\ connected], audio)

SpecCommands == InitCommands /\ [][NextCommands]_vars

-----------------------------------------------------------------------------
(* The camera: ESP32_CAM_IP, camera_monitor_thread and a request for        *)
(* /api/camera/status (enhanced_camera_status).  `online` is the address    *)
(* at which the camera answers now ("None" when it does not answer).  Each  *)
(* step of a thread reads or writes ESP32_CAM_IP at most once.              *)

\* the addresses the camera may get on the access-point network
CameraAddresses == {"192.168.4.100", "192.168.4.101"}

\* discover_esp32_cam: ESP32_CAM_IP after the scan, the address that answered
\* or the value it had
discover_esp32_cam(ip, online) == IF online # "None" THEN online ELSE ip

\* check_camera_connection, the request to f"http://{ESP32_CAM_IP}/status":
\* status 200 from the address read, False for any other answer or exception
check_camera_connection(ip, online) == ip # "None" /\ ip = online

\* the reply of enhanced_camera_status from either `return jsonify` with
\* 'connected': True; 'ip' is ESP32_CAM_IP as read when the reply is built
connected_response(ip) == [sent |-> TRUE, connected |-> TRUE, ip |-> ip]

\* the reply of the else branch
not_found_response == [sent |-> TRUE, connected |-> FALSE, ip |-> "None"]

\* the camera joins the network, leaves it or gets another address
CameraChanges ==
    /\ \E online \in CameraAddresses \cup {"None"} :
           /\ online # camera.online
           /\ camera' = [camera EXCEPT !.online = online]
    /\ UNCHANGED <<display, call, earlier, renders, steady, chg_run, env,
                   threads, battery, walle>>

\* camera_monitor_thread: `if not ESP32_CAM_IP:`
MonitorLooksForAddress ==
    /\ camera.monitor.pc = "top"
    /\ camera' = [camera EXCEPT !.monitor.pc =
                     IF camera.ip = "None" THEN "discover" ELSE "if_ip"]
    /\ UNCHANGED <<display, call, earlier, renders, steady, chg_run, env,
                   threads, battery, walle>>

\* discover_esp32_cam()
MonitorDiscovers ==
    /\ camera.monitor.pc = "discover"
    /\ camera' = [camera EXCEPT
                     !.ip = discover_esp32_cam(camera.ip, camera.online),
                     !.found = IF camera.online # "None"
                               THEN @ \cup {camera.online} ELSE @,
                     !.monitor.pc = "if_ip"]
    /\ UNCHANGED <<display, call, earlier, renders, steady, chg_run, env,
                   threads, battery, walle>>

\* `if ESP32_CAM_IP:`
MonitorTestsAddress ==
    /\ camera.monitor.pc = "if_ip"
    /\ camera' = [camera EXCEPT !.monitor.pc =
                     IF camera.ip = "None" THEN "sleep" ELSE "check"]
    /\ UNCHANGED <<display, call, earlier, renders, steady, chg_run, env,
                   threads, battery, walle>>

\* check_camera_connection(): `if not ESP32_CAM_IP: return False`
MonitorEntersCheck ==
    /\ camera.monitor.pc = "check"
    /\ camera' = [camera EXCEPT
                     !.monitor = IF camera.ip = "None"
                                 THEN [pc |-> "report", connected |-> FALSE]
                                 ELSE [pc |-> "get", connected |-> FALSE]]
    /\ UNCHANGED <<display, call, earlier, renders, steady, chg_run, env,
                   threads, battery, walle>>

\* connected = the outcome of the request of check_camera_connection
MonitorChecksConnection ==
    /\ camera.monitor.pc = "get"
    /\ camera' = [camera EXCEPT
                     !.monitor = [pc |-> "report",
                                  connected |-> check_camera_connection(camera.ip,
                                                                        camera.online)]]
    /\ UNCHANGED <<display, call, earlier, renders, steady, chg_run, env,
                   threads, battery, walle>>

\* socketio.emit('camera_status_update', ...), then
\* `if not connected: ESP32_CAM_IP = None`
MonitorReports ==
    /\ camera.monitor.pc = "report"
    /\ camera' = [camera EXCEPT
                     !.ip = IF camera.monitor.connected THEN @ ELSE "None",
                     !.monitor.pc = "sleep"]
    /\ UNCHANGED <<display, call, earlier, renders, steady, chg_run, env,
                   threads, battery, walle>>

\* time.sleep(30)
MonitorSleeps ==
    /\ camera.monitor.pc = "sleep"
    /\ camera' = [camera EXCEPT !.monitor.pc = "top"]
    /\ UNCHANGED <<display, call, earlier, renders, steady, chg_run, env,
                   threads, battery, walle>>

\* GET /api/camera/status arrives
RequestArrives ==
    /\ camera.request.pc = "idle"
    /\ camera' = [camera EXCEPT
                     !.request.pc = "top",
                     !.response = [sent |-> FALSE, connected |-> FALSE,
                                   ip |-> "None"]]
    /\ UNCHANGED <<display, call, earlier, renders, steady, chg_run, env,
                   threads, battery, walle>>

\* enhanced_camera_status: `if not ESP32_CAM_IP:`
RequestLooksForAddress ==
    /\ camera.request.pc = "top"
    /\ camera' = [camera EXCEPT !.request.pc =
                     IF camera.ip = "None" THEN "discover" ELSE "if_ip"]
    /\ UNCHANGED <<display, call, earlier, renders, steady, chg_run, env,
                   threads, battery, walle>>

\* discover_esp32_cam()
RequestDiscovers ==
    /\ camera.request.pc = "discover"
    /\ camera' = [camera EXCEPT
                     !.ip = discover_esp32_cam(camera.ip, camera.online),
                     !.found = IF camera.online # "None"
                               THEN @ \cup {camera.online} ELSE @,
                     !.request.pc = "if_ip"]
    /\ UNCHANGED <<display, call, earlier, renders, steady, chg_run, env,
                   threads, battery, walle>>

\* `if ESP32_CAM_IP and ...`: the else branch replies when it is None
RequestTestsAddress ==
    /\ camera.request.pc = "if_ip"
    /\ camera' = IF camera.ip = "None"
                  THEN [camera EXCEPT !.request.pc = "idle",
                                      !.response = not_found_response]
                  ELSE [camera EXCEPT !.request.pc = "check"]
    /\ UNCHANGED <<display, call, earlier, renders, steady, chg_run, env,
                   threads, battery, walle>>

\* check_camera_connection(): `if not ESP32_CAM_IP: return False`
RequestEntersCheck ==
    /\ camera.request.pc = "check"
    /\ camera' = IF camera.ip = "None"
                  THEN [camera EXCEPT !.request.pc = "idle",
                                      !.response = not_found_response]
                  ELSE [camera EXCEPT !.request.pc = "get"]
    /\ UNCHANGED <<display, call, earlier, renders, steady, chg_run, env,
                   threads, battery, walle>>

\* the request of check_camera_connection and the branch on its outcome
RequestChecksConnection ==
    /\ camera.request.pc = "get"
    /\ camera' = IF check_camera_connection(camera.ip, camera.online)
                  THEN [camera EXCEPT !.request.pc = "status"]
                  ELSE [camera EXCEPT !.request.pc = "idle",
                                      !.response = not_found_response]
    /\ UNCHANGED <<display, call, earlier, renders, steady, chg_run, env,
                   threads, battery, walle>>

\* requests.get(f"http://{ESP32_CAM_IP}/status", timeout=8) and .json():
\* an exception leads to the inner except branch
RequestGetsStatus ==
    /\ camera.request.pc = "status"
    /\ camera' = [camera EXCEPT !.request.pc =
                     IF camera.ip # "None" /\ camera.ip = camera.online
                     THEN "detection" ELSE "except"]
    /\ UNCHANGED <<display, call, earlier, renders, steady, chg_run, env,
                   threads, battery, walle>>

\* requests.get(f"http://{ESP32_CAM_IP}/detection/status", timeout=5)
RequestGetsDetection ==
    /\ camera.request.pc = "detection"
    /\ camera' = [camera EXCEPT !.request.pc =
                     IF camera.ip # "None" /\ camera.ip = camera.online
                     THEN "reply" ELSE "except"]
    /\ UNCHANGED <<display, call, earlier, renders, steady, chg_run, env,
                   threads, battery, walle>>

\* `return jsonify({... 'connected': True, 'ip': ESP32_CAM_IP, ...})` of the
\* try block
RequestReplies ==
    /\ camera.request.pc = "reply"
    /\ camera' = [camera EXCEPT !.request.pc = "idle",
                                !.response = connected_response(camera.ip)]
    /\ UNCHANGED <<display, call, earlier, renders, steady, chg_run, env,
                   threads, battery, walle>>

\* `return jsonify({... 'connected': True, 'ip': ESP32_CAM_IP, ...})` of the
\* inner except branch
RequestRepliesWithoutDetection ==
    /\ camera.request.pc = "except"
    /\ camera' = [camera EXCEPT !.request.pc = "idle",
                                !.response = connected_response(camera.ip)]
    /\ UNCHANGED <<display, call, earlier, renders, steady, chg_run, env,
                   threads, battery, walle>>

NextCamera ==
    \/ CameraChanges
    \/ MonitorLooksForAddress
    \/ MonitorDiscovers
    \/ MonitorTestsAddress
    \/ MonitorEntersCheck
    \/ MonitorChecksConnection
    \/ MonitorReports
    \/ MonitorSleeps
    \/ RequestArrives
    \/ RequestLooksForAddress
    \/ RequestDiscovers
    \/ RequestTestsAddress
    \/ RequestEntersCheck
    \/ RequestChecksConnection
    \/ RequestGetsStatus
    \/ RequestGetsDetection
    \/ RequestReplies
    \/ RequestRepliesWithoutDetection

SpecCamera == InitApp /\ [][NextCamera]_vars

-----------------------------------------------------------------------------
(* Properties *)

\* the last call was update_status on a controller with a panel
StatusCall == call.op = "update_status" /\ display.available

\* the call c ran the solar view as far as the hand-off to the panel
SolarFrame(c) == c.views = <<"solar">> /\ c.handed # NoImage

\* the rectangles of the canvas of c issued by the call site `part`
Parts(c, part) == {k \in c.canvas : k.part = part}

FullSegments(c) == Cardinality(Parts(c, "full"))
PartialSegments(c) == Cardinality(Parts(c, "partial"))

\* C1: update_status with a battery level below 15 selects and runs the
\* battery-focus view, whatever is_charging and solar_power are.
C1_CriticalBatterySelectsBatteryFocus ==
    (StatusCall /\ call.battery_level < 15)
        => (call.views = <<"battery">> /\ display.display_mode = "battery")

\* a critically low battery that is charging was shown in battery focus
C1_Witness ==
    /\ StatusCall
    /\ call.battery_level = 10 /\ call.is_charging
    /\ call.views = <<"battery">> /\ call.shown

\* C2 as stated: update_status with a battery level of at least 15, not
\* charging and solar_power not above 0.1 W selects the Normal view.
C2_IdleSelectsNormal ==
    (StatusCall /\ call.battery_level >= 15 /\ ~call.is_charging /\ call.solar_power <= 1)
        => call.views = <<"normal">>

\* C2 as amended: update_status with a battery level of at least 15 selects
\* and runs the Solar view whatever is_charging and solar_power are; the
\* Normal view is never selected by update_status.
C2_FifteenAndAboveSelectsSolar ==
    /\ (StatusCall /\ call.battery_level >= 15)
           => (call.views = <<"solar">> /\ display.display_mode = "solar")
    /\ StatusCall => call.views # <<"normal">>

\* an idle snapshot (50 %, not charging, no solar power) was shown in the
\* solar view
C2_Witness ==
    /\ StatusCall
    /\ call.battery_level = 50 /\ ~call.is_charging /\ call.solar_power = 0
    /\ call.views = <<"solar">> /\ call.shown

\* two calls of update_status with the same snapshot
SameSnapshot(c, d) ==
    /\ c.op = "update_status" /\ d.op = "update_status"
    /\ c.battery_level = d.battery_level
    /\ c.is_charging = d.is_charging
    /\ c.solar_power = d.solar_power

\* C3: the view update_status selects depends on the snapshot alone: two
\* calls with the same snapshot run the same view whatever display_mode was
\* before each and whatever was rendered in between, and every call runs
\* exactly one view, which is the display_mode it leaves.
C3_ModeDerivedFromSnapshot ==
    /\ (display.available /\ SameSnapshot(earlier, call))
           => earlier.views = call.views
    /\ StatusCall => (Len(call.views) = 1 /\ call.views[1] = display.display_mode)

\* the same snapshot was rendered twice, once coming from battery focus and
\* once coming from the solar view
C3_Witness ==
    /\ display.available
    /\ SameSnapshot(earlier, call)
    /\ earlier.mode_before # call.mode_before
    /\ earlier.views = call.views

\* C4: every render operation on a controller with a panel hands the panel a
\* bitmap of exactly physical_width x physical_height.
C4_BitmapHasPhysicalSize ==
    (call.op # "none" /\ display.available)
        => call.handed = <<display.physical_width, display.physical_height>>

\* C5: the logical size is the physical size, swapped for the rotations 90
\* and 270.
C5_LogicalMatchesPhysical ==
    IF display.rotation \in {90, 270}
    THEN /\ display.logical_width = display.physical_height
         /\ display.logical_height = display.physical_width
    ELSE /\ display.logical_width = display.physical_width
         /\ display.logical_height = display.physical_height

\* C6: in a solar frame the number of segments drawn fully filled is
\* floor(p * N / 100), for N = 12 (landscape) and N = 16 (portrait).
C6_FullSegmentCount ==
    SolarFrame(call)
        => FullSegments(call) = (call.battery_level * solar_num_bars(display)) \div 100

\* C7: in a solar frame exactly one segment is drawn partially filled, the
\* one just above the full ones, and none when p is a multiple of 100 / N.
C7_OnePartialSegment ==
    SolarFrame(call) =>
        LET N == solar_num_bars(display)
            full == (call.battery_level * N) \div 100
        IN  IF (call.battery_level * N) % 100 = 0
            THEN PartialSegments(call) = 0
            ELSE /\ PartialSegments(call) = 1
                 /\ \A k \in Parts(call, "partial") : k.bar = N - 1 - full

\* C8: of two solar frames of one controller, the one with the higher battery
\* level has at least as many segments drawn filled (fully, and fully or
\* partially), whatever the animation frames of the two are.
C8_FilledSegmentsMonotone ==
    (SolarFrame(earlier) /\ SolarFrame(call)
     /\ earlier.battery_level <= call.battery_level)
        => /\ FullSegments(earlier) <= FullSegments(call)
           /\ FullSegments(earlier) + PartialSegments(earlier)
                  <= FullSegments(call) + PartialSegments(call)

\* two solar frames with rising level, the second with more full segments
C8_Witness ==
    /\ SolarFrame(earlier) /\ SolarFrame(call)
    /\ earlier.battery_level < call.battery_level
    /\ 0 < FullSegments(earlier)
    /\ FullSegments(earlier) < FullSegments(call)

\* C9: after exactly 360 frames shown by update_status with one fixed
\* snapshot, starting from animation_frame = 0, the counter is 0 again.
C9_WrapAfter360 ==
    (steady.kind = "fixed" /\ renders = 360) => display.animation_frame = 0

\* C10: animation_frame stays in 0 .. 359.
C10_FrameBelow360 ==
    display.animation_frame >= 0 /\ display.animation_frame < 360

\* C11: every update_status call on a controller with a panel whose frame
\* reached the panel advances animation_frame by one (or wraps it to 0),
\* whichever view the call selected.
C11_CounterAdvancesEveryTick ==
    (StatusCall /\ call.shown)
        => \/ display.animation_frame = call.frame_before + 1
           \/ display.animation_frame = 0 /\ call.frame_before >= 359

\* the point (x, y) is not a pixel of the logical canvas
OutsideCanvas(x, y) ==
    ~(0 <= x /\ x < display.logical_width /\ 0 <= y /\ y < display.logical_height)

\* the rectangle with the corners a has no pixel on the logical canvas
DisjointFromCanvas(a) ==
    \/ Max(a[1], a[3]) < 0 \/ Min(a[1], a[3]) >= display.logical_width
    \/ Max(a[2], a[4]) < 0 \/ Min(a[2], a[4]) >= display.logical_height

\* C12 as stated: safe_rectangle with both corners outside the logical canvas,
\* in any position and order, draws nothing.
C12_CornersOutsideDrawNothing ==
    (call.op = "safe_rectangle"
     /\ OutsideCanvas(call.args[1], call.args[2])
     /\ OutsideCanvas(call.args[3], call.args[4]))
        => call.canvas = {}

\* C12 as amended: safe_rectangle with a rectangle that lies entirely outside
\* the logical canvas draws nothing, and whatever safe_rectangle draws lies on
\* the canvas (a rectangle that reaches across the canvas is drawn clamped).
C12_RectangleOutsideDrawsNothing ==
    call.op = "safe_rectangle"
        => /\ DisjointFromCanvas(call.args) => call.canvas = {}
           /\ \A k \in call.canvas :
                  /\ 0 <= k.x1 /\ k.x1 < k.x2 /\ k.x2 < display.logical_width
                  /\ 0 <= k.y1 /\ k.y1 < k.y2 /\ k.y2 < display.logical_height

\* a rectangle beyond the right edge, its y range on the canvas, drew nothing
C12_Witness ==
    /\ call.op = "safe_rectangle"
    /\ call.args[1] >= display.logical_width /\ call.args[3] > call.args[1]
    /\ 0 <= call.args[2] /\ call.args[2] < call.args[4]
    /\ call.args[4] < display.logical_height
    /\ call.canvas = {}

\* the last call handed a bitmap to the panel
Handed == call.op # "none" /\ call.handed # NoImage

\* C13: with rotation 0, in every view the pixel (x, y) of the logical canvas
\* is the pixel (x, y) of the bitmap handed to the panel.
C13_RotationZeroIsIdentity ==
    (Handed /\ display.rotation = 0)
        => \A xy \in DOMAIN call.placed : call.placed[xy] = xy

\* the battery-focus view handed over its canvas unrotated, the bottom-right
\* pixel of the canvas among the pixels followed
C13_Witness ==
    /\ Handed /\ display.rotation = 0
    /\ call.views = <<"battery">>
    /\ <<display.logical_width - 1, display.logical_height - 1>> \in DOMAIN call.placed
    /\ call.placed[<<3, 5>>] = <<3, 5>>

\* C14: with rotation 90, in every view the pixel (x, y) of the logical canvas
\* is the pixel (logical_height - 1 - y, x) of the bitmap handed to the panel,
\* and the pixel (0, 0) is its top-right corner.
C14_RotationNinetyIsClockwise ==
    (Handed /\ display.rotation = 90)
        => /\ \A xy \in DOMAIN call.placed :
                  call.placed[xy] = <<display.logical_height - 1 - xy[2], xy[1]>>
           /\ call.placed[<<0, 0>>] = <<display.physical_width - 1, 0>>

\* the solar view handed over its canvas turned clockwise: the left edge of
\* the canvas is the top edge of the bitmap
C14_Witness ==
    /\ Handed /\ display.rotation = 90
    /\ call.views = <<"solar">>
    /\ call.placed[<<0, 0>>] = <<127, 0>>
    /\ call.placed[<<0, display.logical_height - 1>>] = <<0, 0>>

\* C15: with rotation 180, in every view the pixel (x, y) of the logical
\* canvas is the pixel (physical_width - 1 - x, physical_height - 1 - y) of
\* the bitmap handed to the panel.
C15_RotationHalfTurnApplied ==
    (Handed /\ display.rotation = 180)
        => \A xy \in DOMAIN call.placed :
               call.placed[xy] = <<display.physical_width - 1 - xy[1],
                                   display.physical_height - 1 - xy[2]>>

RenderOps ==
    {"update_status", "show_solar_panel_mode", "show_battery_focus",
     "_show_normal_status"}

\* C16: on a controller without a panel every call of update_status,
\* show_solar_panel_mode and show_battery_focus returns normally, hands nothing
\* to the panel and leaves the controller (animation_frame, display_mode,
\* last_battery_level, and its being unavailable) as it was.
C16_HeadlessNoOp ==
    [][(/\ ~display.available
        /\ call'.op \in RenderOps \ {"_show_normal_status"})
           => /\ display' = display
              /\ call'.handed = NoImage /\ ~call'.shown /\ ~call'.raised]_vars

\* update_status with a critically low battery on a controller without a
\* panel ran no view and changed neither display_mode nor last_battery_level
C16_Witness ==
    /\ ~display.available
    /\ call.op = "update_status" /\ call.battery_level = 10
    /\ call.views = <<>> /\ call.handed = NoImage
    /\ display.display_mode = "solar" /\ display.last_battery_level = 100

\* C17: no call of update_status, show_solar_panel_mode, show_battery_focus or
\* _show_normal_status leaves by an exception, whatever the snapshot and
\* whichever step of the call fails.
C17_NoExceptionPropagates ==
    call.op \in RenderOps => ~call.raised

\* update_status returned normally although a draw call of the battery-focus
\* view it ran had raised
C17_Witness ==
    /\ call.op = "update_status" /\ call.views = <<"battery">>
    /\ call.failed = "draw"
    /\ ~call.raised /\ ~call.shown

\* the steps of a call that draw on the canvas
DrawSteps == {"font", "sun", "bars", "particles", "draw"}

Rendering == {t \in DOMAIN threads : threads[t] \in {"update_status", "show_message"}}

FilledFromBottom(c, N) == {N - 1 - k.bar : k \in Parts(c, "full")}

\* C20: in a solar frame the segment that is k-th from the bottom is drawn
\* fully filled exactly when k < floor(p * N / 100), so the filled segments
\* are the bottom-most ones and none is filled above one that is not.
C20_FillsBottomUp ==
    SolarFrame(call) =>
        LET N == solar_num_bars(display)
        IN  /\ FilledFromBottom(call, N)
                   = {k \in 0..(N - 1) : k < (call.battery_level * N) \div 100}
            /\ \A k \in FilledFromBottom(call, N) :
                   \A j \in 0..(k - 1) : j \in FilledFromBottom(call, N)

\* C21: in a solar frame every one of the N segments of the stack has its
\* outline drawn, whatever the battery level, in both layouts.
C21_EverySegmentOutlined ==
    SolarFrame(call) =>
        {k.bar : k \in Parts(call, "outline")} = 0..(solar_num_bars(display) - 1)

\* C22: every rectangle and every line a view draws on the logical canvas
\* has all its coordinates in [0, logical_width - 1] x [0, logical_height - 1].
C22_DrawCallsClamped ==
    call.op \in RenderOps =>
        \A k \in call.canvas :
            /\ 0 <= k.x1 /\ k.x1 <= display.logical_width - 1
            /\ 0 <= k.x2 /\ k.x2 <= display.logical_width - 1
            /\ 0 <= k.y1 /\ k.y1 <= display.logical_height - 1
            /\ 0 <= k.y2 /\ k.y2 <= display.logical_height - 1

\* the coordinates a clamped to the logical canvas
ClampedArgs(a) ==
    <<Max(0, Min(a[1], display.logical_width - 1)),
      Max(0, Min(a[2], display.logical_height - 1)),
      Max(0, Min(a[3], display.logical_width - 1)),
      Max(0, Min(a[4], display.logical_height - 1))>>

\* the span of the coordinates a, clamped, has no width or no height
DegenerateSpan(a) ==
    ClampedArgs(a)[1] = ClampedArgs(a)[3] \/ ClampedArgs(a)[2] = ClampedArgs(a)[4]

\* C23 as stated: safe_rectangle and safe_line draw nothing when the clamped
\* span has zero width or zero height.
C23_DegenerateSpansDrawNothing ==
    (call.op \in {"safe_rectangle", "safe_line"} /\ DegenerateSpan(call.args))
        => call.canvas = {}

\* C23 as amended: safe_rectangle draws nothing when the clamped span has zero
\* width or zero height (and draws the clamped span otherwise); safe_line has
\* no such rule and always draws the line between its clamped end points.
C23_DegenerateRectanglesDrawNothing ==
    /\ call.op = "safe_rectangle"
           => (call.canvas = {} <=> DegenerateSpan(call.args))
    /\ call.op = "safe_line"
           => \E k \in call.canvas :
                  <<k.x1, k.y1, k.x2, k.y2>> = ClampedArgs(call.args)

\* a rectangle of no height on the canvas, its corners in range, drew nothing
C23_Witness ==
    /\ call.op = "safe_rectangle"
    /\ call.args = ClampedArgs(call.args)
    /\ call.args[1] < call.args[3] /\ call.args[2] = call.args[4]
    /\ call.canvas = {}

\* C24: over consecutive solar frames with is_charging true the CHG badge is
\* drawn on 10 frames in a row and then left out on 10 in a row, also across
\* the wrap of the animation counter, and it is never drawn when is_charging
\* is false.
C24_ChargingBadgeBlinks ==
    /\ chg_run.shown <= 10 /\ chg_run.hidden <= 10
    /\ (call.views = <<"solar">> /\ ~call.is_charging) => ~call.badge

\* C25: in the battery-focus and normal views the fill of the battery bar
\* lies strictly inside the outline, there is none at p = 0, its length is
\* floor(p * (L - 2) / 100) for a bar of length L, and in portrait its bottom
\* edge is the inner bottom of the bar (its top edge rising with p).
C25_SingleBarFill ==
    (call.views \in {<<"battery">>, <<"normal">>} /\ call.handed # NoImage) =>
        \A o \in Parts(call, "battery_outline") :
            LET portrait == display.rotation \in {90, 270}
                L == IF portrait THEN o.y2 - o.y1 ELSE o.x2 - o.x1
                length == (call.battery_level * (L - 2)) \div 100
                fills == Parts(call, "battery_fill")
            IN  /\ call.battery_level = 0 => fills = {}
                /\ length > 0 => fills # {}
                /\ \A f \in fills :
                       /\ o.x1 < f.x1 /\ f.x2 < o.x2
                       /\ o.y1 < f.y1 /\ f.y2 < o.y2
                       /\ (IF portrait THEN f.y2 - f.y1 ELSE f.x2 - f.x1) = length
                       /\ portrait => f.y2 = o.y2 - 1

\* the quarter turn the call c gave its canvas, told by where the top-left
\* pixel of the canvas is in the bitmap handed to the panel
TurnOf(c) ==
    IF c.placed[<<0, 0>>] = <<0, 0>> THEN "none"
    ELSE IF c.placed[<<0, 0>>] = <<c.handed[1] - 1, 0>> THEN "clockwise"
    ELSE IF c.placed[<<0, 0>>] = <<0, c.handed[2] - 1>> THEN "counter-clockwise"
    ELSE "half"

\* C26: for the rotations 90 and 270 show_startup_message turns its canvas in
\* the same direction, and hands the panel a bitmap of the same size, as the
\* views do.
C26_OneRotationMapping ==
    (/\ display.rotation \in {90, 270}
     /\ call.op = "show_startup_message" /\ call.handed # NoImage
     /\ earlier.op \in RenderOps /\ earlier.handed # NoImage)
        => /\ TurnOf(call) = TurnOf(earlier)
           /\ call.handed = earlier.handed

C30_ConnectedResponseHasAddress ==
    (camera.response.sent /\ camera.response.connected)
        => /\ camera.response.ip # "None"
           /\ camera.response.ip \in camera.found

\* the latest operation on walle_state was a stop command
Stopped ==
    \/ walle.last.handler = "process_command" /\ walle.last.command = "stop"
    \/ walle.last.handler = "manual_control" /\ walle.last.command = "emergency_stop"

\* C29: after process_command('stop') or a manual_control 'emergency_stop'
\* event, walle_state has mode 'idle' and both motor speeds 0, whatever the
\* state before and whatever arduino and audio are; the servo positions, the
\* sensors and the battery level are as they were before the command.
C29_StopAlwaysRecorded ==
    Stopped =>
        /\ walle.state.mode = "idle"
        /\ walle.state.motors = [left_speed |-> 0, right_speed |-> 0]
        /\ walle.state.servo_positions = walle.last.before.servo_positions
        /\ walle.state.sensors = walle.last.before.sensors
        /\ walle.state.battery_level = walle.last.before.battery_level

\* a stop of a moving robot that has no arduino and no audio, its head
\* turned and its battery level read before
C29_Witness ==
    /\ Stopped
    /\ ~walle.arduino.exists /\ ~walle.audio
    /\ walle.last.before.mode = "moving"
    /\ walle.last.before.motors.left_speed # 0
    /\ walle.last.before.servo_positions.head_pan = 0
    /\ walle.last.before.battery_level = 40

\* C28: whenever _update_battery_readings changes low_battery_warning from
\* false to true, the low-battery callback is invoked, however the monitoring
\* thread interleaves with the registration of the callback.
C28_WarningAlwaysReported ==
    (/\ battery.seen.processed
     /\ ~battery.seen.warning_before
     /\ battery.monitor.low_battery_warning)
        => battery.seen.low_called

====
